---- MODULE Spec2Model ----
(***************************************************************************)
(* The rotating log writer of panlog (logrotate.go): one LogRotator        *)
(* instance, the directory it owns, a clock, and its callers.  Write,       *)
(* Rotate, Close and GetStats each hold the instance's mutex from their    *)
(* first statement to their return (Lock, defer Unlock), so each call is   *)
(* one atomic action, and concurrent callers are the interleavings of      *)
(* these actions.                                                          *)
(*                                                                         *)
(* Time is counted in ticks.  The clock, a file's modification time and    *)
(* the timestamp of a rotated name all have tick resolution, so two        *)
(* rotations in one tick produce the same rotated name, as two rotations   *)
(* within one second do in the program.  A day is DayLen ticks.            *)
(*                                                                         *)
(* A file's content is a sequence of chunks [m, n]: n bytes of the write   *)
(* that carried marker m (marker 0: bytes that were in the file before     *)
(* the instance was constructed).                                          *)
(***************************************************************************)
EXTENDS Integers, Sequences, FiniteSets, TLC

VARIABLES lr, active, rotated, fds, now, ret, nfaults, tally, last, mu, pc

vars == <<lr, active, rotated, fds, now, ret, nfaults, tally, last, mu, pc>>

\* ---------------------------------------------------------------- bounds
\* The clock runs from 0 to MaxTime.  There are MaxWrites Write calls, each
\* by another caller and carrying its own marker: marker p is the p-th Write
\* to take the mutex (ret counts them and tells whether all have succeeded).
\* At most MaxFaults calls meet a failing filesystem call.  Records are of 1
\* to MaxLen bytes.
MaxTime == 2
MaxWrites == 2
MaxFaults == 1
MaxLen == 2
NProcs == 2

\* A day: the horizon is one day and the first tick of the next.
DayLen == MaxTime
\* The lengths of the records written.
Lens == 1 .. MaxLen

\* ------------------------------------------------------ program constants
DefaultMaxSize == 104857600
DefaultMaxBackups == 5
DefaultMaxAge == 7 * DayLen

\* The configurations: a config value of 0 means "unset" and takes the
\* default; a set MaxSize is the length of the longest record.  Retention is <<MaxAge, MaxBackups>>: one backup of any age
\* within the horizon, two backups, two backups no older than one tick.
\* PatternOK: whether the pattern cleanup builds from the path is well-formed
\* (a path such as "logs/app[.log" makes filepath.Glob return ErrBadPattern,
\* and cleanup then returns before it reads the retention settings).
RetentionIn == {<<0, 1>>, <<0, 2>>, <<1, 2>>}
Config(s, r, c, d, g) ==
    [MaxSize |-> s, MaxAge |-> r[1], MaxBackups |-> r[2], Compress |-> c,
     RotateDaily |-> d, PatternOK |-> g]
LogRotatorConfig ==
    {Config(MaxLen, r, c, d, TRUE) :
        r \in RetentionIn, c \in BOOLEAN, d \in BOOLEAN}
        \cup {Config(MaxLen, <<0, 1>>, c, d, FALSE) :
                c \in BOOLEAN, d \in BOOLEAN}
        \cup {Config(0, <<0, 1>>, FALSE, d, TRUE) : d \in BOOLEAN}

\* ---------------------------------------------------------------- errors
Nil == "nil"
ErrWriteClosed == "write: file already closed"
ErrCloseClosed == "close: file already closed"
ErrCloseIO == "close: input/output error"
ErrWriteIO == "write: input/output error"
ErrRotClose == "failed to close log file: "
ErrRotRename == "failed to rename log file"
ErrRotCompress == "failed to compress log file"
ErrRotCleanup == "failed to cleanup old files: syntax error in pattern"
ErrOpen == "failed to open log file"
ErrStat == "failed to get file stats"

\* errors.Is(err, os.ErrClosed)
IsErrClosed(e) ==
    e \in {ErrWriteClosed, ErrCloseClosed, ErrRotClose \o ErrCloseClosed}

\* The filesystem call that fails during one handler call, if any, and for a
\* short write the number of bytes that were written before the failure.
FaultOps == {"none", "close", "rename", "srcopen", "create", "copy",
             "remove", "open", "stat"}
Faults ==
    {[op |-> o, k |-> 0] : o \in FaultOps}
        \cup {[op |-> "write", k |-> k] : k \in 0 .. (MaxLen - 1)}
NoFault == [op |-> "none", k |-> 0]

\* ----------------------------------------------------------------- files
NoFile == [exists |-> FALSE, data |-> <<>>, mtime |-> 0]

RECURSIVE Size(_)
Size(d) == IF d = <<>> THEN 0 ELSE Head(d).n + Size(Tail(d))

\* now.Truncate(24 * time.Hour), as a day number
Truncate(t) == t \div DayLen

\* compress/gzip: the compressed bytes are not the input bytes
Gzip(body) == [enc |-> "gzip", body |-> body]
Gunzip(d) == d.body

Put(f, x, v) == [y \in DOMAIN f \cup {x} |-> IF y = x THEN v ELSE f[y]]
Drop(f, S) == [y \in DOMAIN f \ S |-> f[y]]

\* What the instrumentation records of one handler call: the rotation cycles
\* it ran, whether the daily trigger fired, the names it renamed the active
\* file to, whether cleanup reached its passes, the directory entries it had
\* listed and those whose removal failed, whether a filesystem call failed,
\* and the most handles on the configured path it held open at a time.
\* (Only what Returned keeps of it is part of the state.)
NoTrace ==
    [cycles |-> 0, daily |-> FALSE, renamed |-> {}, cleaned |-> FALSE,
     listed |-> <<>>, nodel |-> {}, hit |-> FALSE, peak |-> 0]

\* The world one handler call works on: the instance, the file at the
\* configured path, the rotated files of the directory (by name), the number
\* of descriptors the instance holds open, and the call's trace.
World == [lr |-> lr, active |-> active, rotated |-> rotated, fds |-> fds,
          tr |-> NoTrace]

Out(w, e) == [w |-> w, err |-> e]
\* The same, when the error is that of the filesystem call that fails.
Fail(w, e) == [w |-> [w EXCEPT !.tr.hit = TRUE], err |-> e]

\* ------------------------------------------------------------- openFile
\* os.OpenFile(path, O_CREATE|O_WRONLY|O_APPEND): the file a is at the path,
\* and the instance holds one more handle on it.
osOpenFile(w, a) ==
    [w EXCEPT !.active = a,
              !.fds = @ + 1,
              !.tr.peak = IF w.fds + 1 > @ THEN w.fds + 1 ELSE @]

\* openFile that leaves the handle open when Stat fails.
openFileLeak(w, t, f) ==
    IF f.op = "open"
    THEN Fail(w, ErrOpen)
    ELSE LET a == IF w.active.exists
                  THEN w.active
                  ELSE [exists |-> TRUE, data |-> <<>>, mtime |-> t]
         IN  IF f.op = "stat"
             THEN Fail(osOpenFile(w, a), ErrStat)
             ELSE Out([osOpenFile(w, a) EXCEPT
                                !.lr.file = "open",
                                !.lr.fileSize = Size(a.data)], Nil)

\* openFile that leaves the tracked size as it is.
openFileNoSync(w, t, f) ==
    IF f.op = "open"
    THEN Fail(w, ErrOpen)
    ELSE LET a == IF w.active.exists
                  THEN w.active
                  ELSE [exists |-> TRUE, data |-> <<>>, mtime |-> t]
         IN  IF f.op = "stat"
             THEN Fail([osOpenFile(w, a) EXCEPT !.fds = @ - 1], ErrStat)
             ELSE Out([osOpenFile(w, a) EXCEPT !.lr.file = "open"], Nil)

openFile(w, t, f) ==
    IF f.op = "open"
    THEN Fail(w, ErrOpen)
    ELSE LET a == IF w.active.exists
                  THEN w.active
                  ELSE [exists |-> TRUE, data |-> <<>>, mtime |-> t]
         IN  IF f.op = "stat"
             THEN Fail([osOpenFile(w, a) EXCEPT !.fds = @ - 1], ErrStat)
             ELSE Out([osOpenFile(w, a) EXCEPT
                                !.lr.file = "open",
                                !.lr.fileSize = Size(a.data)], Nil)

\* ------------------------------------------------- generateRotatedName
\* <base>-<timestamp><ext>: the timestamp, and whether ".gz" follows
generateRotatedName(t) == <<t, FALSE>>
GzName(name) == <<name[1], TRUE>>
HasSuffixGz(name) == name[2]

\* --------------------------------------------------------- compressFile
\* compressFile without the removal of the original file.
compressFileKeepSource(w, name, t, f) ==
    IF HasSuffixGz(name) \/ name \notin DOMAIN w.rotated
    THEN Out(w, Nil)
    ELSE Out([w EXCEPT !.rotated =
                 Put(@, GzName(name),
                     Gzip(w.rotated[name].body) @@ [mtime |-> t])], Nil)

compressFile(w, name, t, f) ==
    IF HasSuffixGz(name)
    THEN Out(w, Nil)
    ELSE IF f.op = "srcopen" \/ name \notin DOMAIN w.rotated
    THEN Fail(w, ErrRotCompress)
    ELSE IF f.op = "create"
    THEN Fail(w, ErrRotCompress)
    ELSE IF f.op = "copy"
    THEN Fail([w EXCEPT !.rotated =
                  Put(@, GzName(name),
                      [enc |-> "trunc", body |-> <<>>, mtime |-> t])],
             ErrRotCompress)
    ELSE LET gz == Gzip(w.rotated[name].body) @@ [mtime |-> t]
             both == Put(w.rotated, GzName(name), gz)
         IN  IF f.op = "remove"
             THEN Fail([w EXCEPT !.rotated = both], ErrRotCompress)
             ELSE Out([w EXCEPT !.rotated = Drop(both, {name})], Nil)

\* -------------------------------------------------------------- cleanup
\* sort.Slice by modification time: not stable, so entries with equal
\* times come out in any order.
RECURSIVE sortSlice(_, _)
sortSlice(S, rot) ==
    IF S = {}
    THEN {<<>>}
    ELSE LET lo == {x \in S : \A y \in S : rot[x].mtime <= rot[y].mtime}
         IN  UNION {{<<x>> \o s : s \in sortSlice(S \ {x}, rot)} : x \in lo}

\* An age pass that removes nothing.
agePassNone(w, t, files) == {}

\* The entries the age pass removes: older than now - maxAge.
agePass(w, t, files) ==
    {files[i] : i \in {j \in 1 .. Len(files) :
                          w.rotated[files[j]].mtime < t - w.lr.maxAge}}

\* A count pass that removes the last len(files) - maxBackups entries.
countPassNewest(w, files) ==
    IF Len(files) > w.lr.maxBackups
    THEN {files[i] : i \in {j \in 1 .. Len(files) : j > w.lr.maxBackups}}
    ELSE {}

\* The entries the count pass removes: the first len(files) - maxBackups.
countPass(w, files) ==
    IF Len(files) > w.lr.maxBackups
    THEN LET toRemove == Len(files) - w.lr.maxBackups
         IN  {files[i] : i \in {j \in 1 .. Len(files) : j <= toRemove}}
    ELSE {}

\* The configured path, as a name of the directory.
FilePath == <<"active">>

\* filepath.Glob(dir/baseWithoutExt-*ext*): the rotated files, and the file
\* at the configured path when there is one and the pattern matches its
\* name (match), each with what Stat reports of it.
Glob(w, match) ==
    IF w.active.exists /\ match
    THEN Put(w.rotated, FilePath,
             [enc |-> "raw", body |-> w.active.data,
              mtime |-> w.active.mtime])
    ELSE w.rotated

\* os.Remove fails on the entries of nodel; the error is ignored.  Whether
\* the pattern matches the name of the configured path is left open.
cleanup(w, t) ==
    IF ~w.lr.patternOK
    THEN {Out(w, ErrRotCleanup)}
    ELSE UNION { UNION {
           LET d == [w EXCEPT !.rotated = Glob(w, match)]
               dels == agePass(d, t, files) \cup countPass(d, files)
           IN  {Out([w EXCEPT
                       !.rotated = Drop(@, dels \ nodel),
                       !.active = IF FilePath \in dels \ nodel
                                  THEN NoFile ELSE @,
                       !.tr.cleaned = TRUE,
                       !.tr.listed = d.rotated,
                       !.tr.nodel = nodel,
                       !.tr.hit = (@ \/ nodel # {})], Nil) :
                  nodel \in SUBSET dels} :
           files \in sortSlice(DOMAIN Glob(w, match), Glob(w, match))} :
           match \in BOOLEAN}

\* --------------------------------------------------------------- rotate
\* A cycle that cleans up with the file still at the configured path.
rotateStepsInPlace(w, t, f) ==
    IF w.lr.file # "open"
    THEN {Out(w, ErrRotClose \o ErrCloseClosed)}
    ELSE {IF k.err # Nil THEN k ELSE openFile(k.w, t, f) :
            k \in cleanup([w EXCEPT !.lr.file = "closed", !.fds = @ - 1], t)}

\* A cycle that opens the new file over the handle it holds.
rotateStepsReopen(w, t, f) == {openFile(w, t, f)}

rotateSteps(w, t, f) ==
    IF w.lr.file = "nil"
    THEN {openFile(w, t, f)}
    ELSE IF w.lr.file = "closed"
    THEN {Out(w, ErrRotClose \o ErrCloseClosed)}
    ELSE LET w1 == [w EXCEPT !.lr.file = "closed", !.fds = @ - 1]
         IN
         IF f.op = "close"
         THEN {Fail(w1, ErrRotClose \o ErrCloseIO)}
         ELSE IF f.op = "rename" \/ ~w1.active.exists
         THEN {Fail(w1, ErrRotRename)}
         ELSE LET name == generateRotatedName(t)
                  w2 == [w1 EXCEPT
                           !.rotated = Put(@, name,
                               [enc |-> "raw", body |-> w1.active.data,
                                mtime |-> w1.active.mtime]),
                           !.active = NoFile,
                           !.tr.renamed = @ \cup {name}]
                  c == IF w.lr.compress
                       THEN compressFile(w2, name, t, f)
                       ELSE Out(w2, Nil)
              IN  IF c.err # Nil
                  THEN {c}
                  ELSE {IF k.err # Nil THEN k ELSE openFile(k.w, t, f) :
                          k \in cleanup(c.w, t)}

rotate(w, t, f) == rotateSteps([w EXCEPT !.tr.cycles = @ + 1], t, f)

\* -------------------------------------------------------- checkRotation
\* checkRotation that goes on to the size test, on the size it was called
\* with, after a daily rotation.
checkRotationBoth(w, t, f) ==
    LET currentDay == Truncate(t)
    IN  IF w.lr.rotateDaily /\ currentDay > w.lr.rotateTime
        THEN UNION {IF r.err # Nil
                    THEN {r}
                    ELSE IF w.lr.fileSize >= w.lr.maxSize
                    THEN rotate([r.w EXCEPT !.lr.rotateTime = currentDay],
                                t, f)
                    ELSE {Out([r.w EXCEPT !.lr.rotateTime = currentDay],
                              Nil)} :
                      r \in rotate([w EXCEPT !.tr.daily = TRUE], t, f)}
        ELSE IF w.lr.fileSize >= w.lr.maxSize
        THEN rotate(w, t, f)
        ELSE {Out(w, Nil)}

\* checkRotation that records the day before the cycle runs.
checkRotationStampFirst(w, t, f) ==
    LET currentDay == Truncate(t)
    IN  IF w.lr.rotateDaily /\ currentDay > w.lr.rotateTime
        THEN rotate([w EXCEPT !.tr.daily = TRUE,
                              !.lr.rotateTime = currentDay], t, f)
        ELSE IF w.lr.fileSize >= w.lr.maxSize
        THEN rotate(w, t, f)
        ELSE {Out(w, Nil)}

\* checkRotation without the size trigger.
checkRotationNoSize(w, t, f) ==
    LET currentDay == Truncate(t)
    IN  IF w.lr.rotateDaily /\ currentDay > w.lr.rotateTime
        THEN {IF r.err # Nil
              THEN r
              ELSE Out([r.w EXCEPT !.lr.rotateTime = currentDay], Nil) :
                r \in rotate([w EXCEPT !.tr.daily = TRUE], t, f)}
        ELSE {Out(w, Nil)}

\* checkRotation with the size test "fileSize > maxSize".
checkRotationStrict(w, t, f) ==
    LET currentDay == Truncate(t)
    IN  IF w.lr.rotateDaily /\ currentDay > w.lr.rotateTime
        THEN {IF r.err # Nil
              THEN r
              ELSE Out([r.w EXCEPT !.lr.rotateTime = currentDay], Nil) :
                r \in rotate([w EXCEPT !.tr.daily = TRUE], t, f)}
        ELSE IF w.lr.fileSize > w.lr.maxSize
        THEN rotate(w, t, f)
        ELSE {Out(w, Nil)}

\* checkRotation with the size test at half the ceiling.
checkRotationHalf(w, t, f) ==
    LET currentDay == Truncate(t)
    IN  IF w.lr.rotateDaily /\ currentDay > w.lr.rotateTime
        THEN {IF r.err # Nil
              THEN r
              ELSE Out([r.w EXCEPT !.lr.rotateTime = currentDay], Nil) :
                r \in rotate([w EXCEPT !.tr.daily = TRUE], t, f)}
        ELSE IF w.lr.fileSize * 2 >= w.lr.maxSize
        THEN rotate(w, t, f)
        ELSE {Out(w, Nil)}

\* checkRotation that does not record the day of a daily rotation.
checkRotationNoStamp(w, t, f) ==
    LET currentDay == Truncate(t)
    IN  IF w.lr.rotateDaily /\ currentDay > w.lr.rotateTime
        THEN rotate([w EXCEPT !.tr.daily = TRUE], t, f)
        ELSE IF w.lr.fileSize >= w.lr.maxSize
        THEN rotate(w, t, f)
        ELSE {Out(w, Nil)}

checkRotation(w, t, f) ==
    LET currentDay == Truncate(t)
    IN  IF w.lr.rotateDaily /\ currentDay > w.lr.rotateTime
        THEN {IF r.err # Nil
              THEN r
              ELSE Out([r.w EXCEPT !.lr.rotateTime = currentDay], Nil) :
                r \in rotate([w EXCEPT !.tr.daily = TRUE], t, f)}
        ELSE IF w.lr.fileSize >= w.lr.maxSize
        THEN rotate(w, t, f)
        ELSE {Out(w, Nil)}

\* ---------------------------------------------------------------- Write
\* lr.file.Write(p): all of p, or f.k bytes of it and an error.
fileWrite(w, t, p, f) ==
    IF w.lr.file # "open"
    THEN [w |-> w, n |-> 0, err |-> ErrWriteClosed]
    ELSE LET k == IF f.op = "write" THEN f.k ELSE p.n
             a == IF k = 0
                  THEN w.active
                  ELSE [w.active EXCEPT
                          !.data = Append(@, [m |-> p.m, n |-> k]),
                          !.mtime = t]
         IN  [w |-> [w EXCEPT !.active = a, !.tr.hit = (@ \/ f.op = "write")],
              n |-> k,
              err |-> IF f.op = "write" THEN ErrWriteIO ELSE Nil]

\* writeBody that appends without calling checkRotation.
writeBodyNoCheck(w, t, p, f) ==
    {LET x == fileWrite(w, t, p, f)
     IN  IF x.err # Nil
         THEN x
         ELSE [x EXCEPT !.w.lr.fileSize = @ + x.n]}

\* writeBody without the early return on checkRotation's error.
writeBodyNoReturn(w, t, p, f) ==
    {LET x == fileWrite(r.w, t, p, f)
     IN  IF x.err # Nil
         THEN x
         ELSE [x EXCEPT !.w.lr.fileSize = @ + x.n] :
       r \in checkRotation(w, t, f)}

writeBody(w, t, p, f) ==
    {IF r.err # Nil
     THEN [w |-> r.w, n |-> 0, err |-> r.err]
     ELSE LET x == fileWrite(r.w, t, p, f)
          IN  IF x.err # Nil
              THEN x
              ELSE [x EXCEPT !.w.lr.fileSize = @ + x.n] :
       r \in checkRotation(w, t, f)}

\* ---------------------------------------------------------------- Close
\* closeBody that leaves the handle as it is.
closeBodyNoClose(w, f) == Out(w, Nil)

closeBody(w, f) ==
    IF w.lr.file = "nil"
    THEN Out(w, Nil)
    ELSE IF w.lr.file = "closed"
    THEN Out(w, ErrCloseClosed)
    ELSE IF f.op = "close"
    THEN Fail([w EXCEPT !.lr.file = "closed", !.fds = @ - 1], ErrCloseIO)
    ELSE Out([w EXCEPT !.lr.file = "closed", !.fds = @ - 1], Nil)

\* ------------------------------------------------------------- GetStats
getStats(w) ==
    [file_size |-> w.lr.fileSize, max_size |-> w.lr.maxSize,
     max_age |-> w.lr.maxAge, max_backups |-> w.lr.maxBackups,
     compress |-> w.lr.compress, rotate_daily |-> w.lr.rotateDaily,
     rotate_time |-> w.lr.rotateTime, file_open |-> w.lr.file # "nil"]

\* -------------------------------------------------------- NewLogRotator
\* The instance a successful construction returns, on a directory that
\* holds a file of s0 bytes at the path (none when s0 = 0).
NewLogRotator(config, t, s0) ==
    LET l == [maxSize |-> IF config.MaxSize = 0
                          THEN DefaultMaxSize ELSE config.MaxSize,
              maxAge |-> IF config.MaxAge = 0
                         THEN DefaultMaxAge ELSE config.MaxAge,
              maxBackups |-> IF config.MaxBackups = 0
                             THEN DefaultMaxBackups ELSE config.MaxBackups,
              compress |-> config.Compress,
              rotateDaily |-> config.RotateDaily,
              patternOK |-> config.PatternOK,
              rotateTime |-> Truncate(t),
              file |-> "nil",
              fileSize |-> 0]
        disk == IF s0 = 0
                THEN NoFile
                ELSE [exists |-> TRUE, data |-> <<[m |-> 0, n |-> s0]>>,
                      mtime |-> t]
    IN  openFile([lr |-> l, active |-> disk, rotated |-> <<>>, fds |-> 0,
                  tr |-> NoTrace], t, NoFault)

\* ------------------------------------------------------------ the calls
NoCall == [op |-> "none"]

\* Every public method is "lr.mu.Lock(); defer lr.mu.Unlock(); body": in
\* Spec a call is one step, which takes and releases the mutex, so mu stays
\* free (0) and every caller idle.  SpecLock has the callers of Procs take
\* the mutex and run the bodies step by step: pc[p] is where caller p is,
\* with the length of its record, the trace of its rotation and the result
\* it is about to return.
Procs == 1 .. NProcs
Idle == [at |-> "idle", n |-> 0, tr |-> NoTrace, res |-> NoCall]

\* What a call returned, and of its trace: the rotation cycles it ran,
\* whether the daily trigger fired, whether cleanup reached its passes, the
\* modification times of the entries it listed, the entries whose removal
\* failed, and the most handles it held open at a time.
Returned(op, w, n, err) ==
    [op |-> op, n |-> n, err |-> err, cycles |-> w.tr.cycles,
     daily |-> w.tr.daily, cleaned |-> w.tr.cleaned,
     listed |-> [x \in DOMAIN w.tr.listed |-> w.tr.listed[x].mtime],
     nodel |-> w.tr.nodel, peak |-> w.tr.peak]

Commit(w) ==
    /\ lr' = w.lr
    /\ active' = w.active
    /\ rotated' = w.rotated
    /\ fds' = w.fds
    /\ nfaults' = nfaults + (IF w.tr.hit THEN 1 ELSE 0)
    /\ nfaults' <= MaxFaults

\* The size of the file found at the path at construction: none, or one as
\* large as the size ceiling.
InitSize(config, full) ==
    IF ~full THEN 0
    ELSE IF config.MaxSize = 0 THEN DefaultMaxSize
    ELSE config.MaxSize

Constructed(config, s0) ==
    LET r == NewLogRotator(config, 0, s0)
    IN  /\ lr = r.w.lr
        /\ active = r.w.active
        /\ rotated = r.w.rotated
        /\ fds = r.w.fds
        /\ now = 0
        /\ ret = [n |-> 0, ok |-> TRUE]
        /\ nfaults = 0
        /\ last = NoCall
        /\ mu = 0
        /\ pc = [p \in Procs |-> Idle]

\* tally is a history of the Write calls that only SpecTally keeps: the size
\* of the file found at construction, the total length of the records the
\* callers have passed to Write, the length of the last one, and the total
\* of the counts that Write has returned.
NoTally == [s0 |-> 0, total |-> 0, len |-> 0, written |-> 0]

Init ==
    \E config \in LogRotatorConfig, full \in BOOLEAN :
        /\ Constructed(config, InitSize(config, full))
        /\ tally = NoTally

\* The clock advances between calls.
Tick ==
    /\ now < MaxTime
    /\ now' = now + 1
    /\ last' = NoCall
    /\ UNCHANGED <<lr, active, rotated, fds, ret, nfaults, tally, mu, pc>>

\* The next caller calls Write with a record of n bytes.
WriteCall(n) ==
    /\ \E f \in Faults :
         /\ f.k < n
         /\ f = NoFault \/ nfaults < MaxFaults
         /\ \E x \in writeBody(World, now, [m |-> ret.n + 1, n |-> n], f) :
              /\ Commit(x.w)
              /\ ret' = [n |-> ret.n + 1, ok |-> ret.ok /\ x.err = Nil]
              /\ last' = Returned("Write", x.w, x.n, x.err)
    /\ UNCHANGED <<now, mu, pc>>

Write ==
    /\ ret.n < MaxWrites
    /\ \E n \in Lens : WriteCall(n) /\ UNCHANGED tally

Rotate ==
    /\ \E f \in Faults :
         /\ f.op # "write"
         /\ f = NoFault \/ nfaults < MaxFaults
         /\ \E x \in rotate(World, now, f) :
              /\ Commit(x.w)
              /\ last' = Returned("Rotate", x.w, 0, x.err)
    /\ UNCHANGED <<now, ret, tally, mu, pc>>

Close ==
    /\ \E f \in {NoFault, [op |-> "close", k |-> 0]} :
         /\ f = NoFault \/ nfaults < MaxFaults
         /\ LET x == closeBody(World, f)
            IN  /\ Commit(x.w)
                /\ last' = Returned("Close", x.w, 0, x.err)
    /\ UNCHANGED <<now, ret, tally, mu, pc>>

GetStats ==
    /\ last' = [op |-> "GetStats", stats |-> getStats(World)]
    /\ UNCHANGED <<lr, active, rotated, fds, now, ret, nfaults, tally, mu,
                   pc>>

Next ==
    \/ Tick
    \/ Write
    \/ Rotate
    \/ Close
    \/ GetStats

Spec == Init /\ [][Next]_vars

\* ---------------------------------------------------- construction
\* The nil *LogRotator that NewLogRotator returns with an error.
NoWriter ==
    [maxSize |-> 0, maxAge |-> 0, maxBackups |-> 0, compress |-> FALSE,
     rotateDaily |-> FALSE, patternOK |-> TRUE, rotateTime |-> 0,
     file |-> "nil", fileSize |-> 0]

ErrPath == "file path is required"
ErrMkdir == "failed to create log directory"

NewFaults == {[op |-> o, k |-> 0] : o \in {"none", "mkdir", "open", "stat"}}

\* NewLogRotator on the directory of w: what it returns (the writer, or
\* NoWriter and an error), and whether it called os.MkdirAll.
NewLogRotatorOn(path, config, w, t, f) ==
    IF path = ""
    THEN [w |-> [w EXCEPT !.lr = NoWriter], err |-> ErrPath,
          mkdir |-> FALSE]
    ELSE IF f.op = "mkdir"
    THEN [w |-> [w EXCEPT !.lr = NoWriter, !.tr.hit = TRUE],
          err |-> ErrMkdir, mkdir |-> TRUE]
    ELSE LET l == NewLogRotator(config, t, 0).w.lr
             r == openFile([w EXCEPT !.lr = [l EXCEPT !.file = "nil",
                                                       !.fileSize = 0]],
                           t, f)
         IN  IF r.err # Nil
             THEN [w |-> [r.w EXCEPT !.lr = NoWriter], err |-> r.err,
                   mkdir |-> TRUE]
             ELSE [w |-> r.w, err |-> Nil, mkdir |-> TRUE]

\* Before construction: no writer, and at the path no file or one of the
\* size of the longest record.
InitNew ==
    /\ lr = NoWriter
    /\ active \in {NoFile, [exists |-> TRUE,
                             data |-> <<[m |-> 0, n |-> MaxLen]>>,
                             mtime |-> 0]}
    /\ rotated = <<>>
    /\ fds = 0
    /\ now = 0
    /\ ret = [n |-> 0, ok |-> TRUE]
    /\ nfaults = 0
    /\ tally = NoTally
    /\ last = NoCall
    /\ mu = 0
    /\ pc = [p \in Procs |-> Idle]

New ==
    /\ lr = NoWriter
    /\ \E path \in {"", "app.log"}, config \in LogRotatorConfig,
          f \in NewFaults :
         /\ f = NoFault \/ nfaults < MaxFaults
         /\ LET x == NewLogRotatorOn(path, config, World, now, f)
            IN  /\ Commit(x.w)
                /\ last' = [op |-> "NewLogRotator", path |-> path,
                            err |-> x.err, mkdir |-> x.mkdir]
    /\ UNCHANGED <<now, ret, tally, mu, pc>>

\* The calls on the writer that a construction has returned.
Use ==
    /\ lr # NoWriter
    /\ Write \/ Close \/ GetStats

NextNew ==
    \/ Tick
    \/ New
    \/ Use

SpecNew == InitNew /\ [][NextNew]_vars

\* The same instance with the tally kept, and no caller of Rotate.  The size
\* ceiling is what MaxWrites records of MaxLen bytes come to, and the file
\* found at construction is of any size up to it.
TallySize == MaxLen * MaxWrites

InitTally ==
    \E c \in BOOLEAN, d \in BOOLEAN, s0 \in 0 .. TallySize :
        /\ Constructed(Config(TallySize, <<0, 1>>, c, d, TRUE), s0)
        /\ tally = [s0 |-> s0, total |-> 0, len |-> 0, written |-> 0]

WriteTallied ==
    /\ ret.n < MaxWrites
    /\ \E n \in Lens :
         /\ WriteCall(n)
         /\ tally' = [s0 |-> tally.s0, total |-> tally.total + n, len |-> n,
                      written |-> tally.written + last'.n]

NextTally ==
    \/ Tick
    \/ WriteTallied
    \/ Close
    \/ GetStats

SpecTally == InitTally /\ [][NextTally]_vars

\* Callers concurrent callers of Write and nobody else, on an instance whose
\* retention settings are the defaults: the mutex serialises the calls, and
\* marker p is the p-th to take it.
Callers == 3

InitWriters ==
    \E c \in BOOLEAN, full \in BOOLEAN :
        LET config == Config(MaxLen, <<0, 0>>, c, FALSE, TRUE)
        IN  /\ Constructed(config, InitSize(config, full))
            /\ tally = NoTally

WriteByCaller ==
    /\ ret.n < Callers
    /\ \E n \in Lens : WriteCall(n) /\ UNCHANGED tally

NextWriters ==
    \/ Tick
    \/ WriteByCaller

SpecWriters == InitWriters /\ [][NextWriters]_vars

\* ------------------------------------------------------------ the mutex
\* The callers of Procs call the methods concurrently.  A caller waits at
\* lr.mu.Lock() (at "lock"), runs the body of its method while it holds the
\* mutex, and releases it when the method returns (at "unlock").  The body
\* of Write is two steps: checkRotation, then lr.file.Write and the update
\* of fileSize.  No filesystem call fails here: the errors the methods
\* return are those of a closed handle.
InitLock ==
    \E d \in BOOLEAN, full \in BOOLEAN :
        LET config == Config(MaxLen, <<0, 2>>, FALSE, d, TRUE)
        IN  /\ Constructed(config, InitSize(config, full))
            /\ tally = NoTally

\* The Write calls that have not returned.
Writing == {p \in Procs : pc[p].at \in {"lock", "check", "append", "unlock"}
                            /\ pc[p].n > 0}

\* lr.mu.Lock() that does not wait.
muLockNoWait(p) == mu' = p

\* lr.mu.Lock() returns to caller p: the mutex was free and is now p's.
muLock(p) == mu = 0 /\ mu' = p

\* lr.mu.Unlock(), deferred to the return of the method.
muUnlock(p) == mu' = 0

\* Caller p calls a method and comes to lr.mu.Lock().
Call(p) ==
    /\ pc[p].at = "idle"
    /\ \/ /\ ret.n + Cardinality(Writing) < MaxWrites
          /\ \E n \in Lens :
               pc' = [pc EXCEPT ![p] = [Idle EXCEPT !.at = "lock",
                                                  !.res = [op |-> "Write"],
                                                  !.n = n]]
       \/ \E op \in {"Rotate", "Close", "GetStats"} :
            pc' = [pc EXCEPT ![p] = [Idle EXCEPT !.at = "lock",
                                                !.res = [op |-> op]]]
    /\ UNCHANGED <<lr, active, rotated, fds, now, ret, nfaults, tally, last,
                   mu>>

\* The first step of the body of each method.
Body(op) ==
    CASE op = "Write" -> "check"
      [] op = "Rotate" -> "rotate"
      [] op = "Close" -> "close"
      [] OTHER -> "stats"

Acquire(p) ==
    /\ pc[p].at = "lock"
    /\ muLock(p)
    /\ pc' = [pc EXCEPT ![p].at = Body(pc[p].res.op)]
    /\ UNCHANGED <<lr, active, rotated, fds, now, ret, nfaults, tally, last>>

\* Write: "if err := lr.checkRotation(); err != nil { return 0, err }".
WriteCheck(p) ==
    /\ pc[p].at = "check"
    /\ LET f == NoFault
       IN  \E r \in checkRotation(World, now, f) :
              /\ Commit(r.w)
              /\ pc' = [pc EXCEPT ![p] =
                          IF r.err # Nil
                          THEN [@ EXCEPT !.at = "unlock",
                                         !.res = Returned("Write", r.w, 0,
                                                          r.err)]
                          ELSE [@ EXCEPT !.at = "append", !.tr = r.w.tr]]
    /\ UNCHANGED <<now, ret, tally, last, mu>>

\* Write: lr.file.Write(p) and "lr.fileSize += int64(n)".
WriteAppend(p) ==
    /\ pc[p].at = "append"
    /\ LET f == NoFault
       IN  LET w == [World EXCEPT !.tr = [pc[p].tr EXCEPT !.hit = FALSE]]
                x == fileWrite(w, now,
                               [m |-> ret.n + 1, n |-> pc[p].n], f)
                y == IF x.err # Nil
                     THEN x
                     ELSE [x EXCEPT !.w.lr.fileSize = @ + x.n]
            IN  /\ Commit(y.w)
                /\ pc' = [pc EXCEPT ![p].at = "unlock",
                                    ![p].res = Returned("Write", y.w, y.n,
                                                        y.err)]
    /\ UNCHANGED <<now, ret, tally, last, mu>>

RotateBody(p) ==
    /\ pc[p].at = "rotate"
    /\ LET f == NoFault
       IN  \E x \in rotate(World, now, f) :
              /\ Commit(x.w)
              /\ pc' = [pc EXCEPT ![p].at = "unlock",
                                  ![p].res = Returned("Rotate", x.w, 0,
                                                      x.err)]
    /\ UNCHANGED <<now, ret, tally, last, mu>>

CloseBody(p) ==
    /\ pc[p].at = "close"
    /\ LET f == NoFault
       IN  LET x == closeBody(World, f)
            IN  /\ Commit(x.w)
                /\ pc' = [pc EXCEPT ![p].at = "unlock",
                                    ![p].res = Returned("Close", x.w, 0,
                                                        x.err)]
    /\ UNCHANGED <<now, ret, tally, last, mu>>

StatsBody(p) ==
    /\ pc[p].at = "stats"
    /\ pc' = [pc EXCEPT ![p].at = "unlock",
                        ![p].res = [op |-> "GetStats",
                                    stats |-> getStats(World)]]
    /\ UNCHANGED <<lr, active, rotated, fds, now, ret, nfaults, tally, last,
                   mu>>

\* The method returns to caller p and the deferred Unlock runs.
Return(p) ==
    /\ pc[p].at = "unlock"
    /\ muUnlock(p)
    /\ last' = pc[p].res
    /\ ret' = IF pc[p].res.op = "Write"
              THEN [n |-> ret.n + 1, ok |-> ret.ok /\ pc[p].res.err = Nil]
              ELSE ret
    /\ pc' = [pc EXCEPT ![p] = Idle]
    /\ UNCHANGED <<lr, active, rotated, fds, now, nfaults, tally>>

NextLock ==
    \/ Tick
    \/ \E p \in Procs : Call(p)
    \/ \E p \in Procs : Acquire(p)
    \/ \E p \in Procs : WriteCheck(p)
    \/ \E p \in Procs : WriteAppend(p)
    \/ \E p \in Procs : RotateBody(p)
    \/ \E p \in Procs : CloseBody(p)
    \/ \E p \in Procs : StatsBody(p)
    \/ \E p \in Procs : Return(p)

SpecLock == InitLock /\ [][NextLock]_vars

\* ------------------------------------------------------------ claims
\* A step in which a Write call returned, and the marker of its record.
WriteStep == ret'.n = ret.n + 1

\* The contents of the files of the directory: the active file and the
\* rotated files, a compressed one decompressed.
Contents(a, rot) ==
    [x \in DOMAIN rot \cup {<<"active">>} |->
        IF x = <<"active">> THEN a.data
        ELSE IF rot[x].enc = "gzip" THEN Gunzip(rot[x])
        ELSE rot[x].body]

\* How many chunks of marker p the files hold.
Occurrences(p, a, rot) ==
    LET c == Contents(a, rot)
    IN  Cardinality({<<x, i>> \in UNION {{x} \X (1 .. Callers + 1) :
                                            x \in DOMAIN c} :
                       i <= Len(c[x]) /\ c[x][i].m = p})

\* The errors rotate returns.
RotateErrs ==
    {ErrRotClose \o ErrCloseClosed, ErrRotClose \o ErrCloseIO, ErrRotRename,
     ErrRotCompress, ErrRotCleanup, ErrOpen, ErrStat}

\* C1: when the rotation cycle that a Write's pre-write check starts fails,
\* the Write returns 0 and the cycle's error, none of the caller's bytes is
\* appended to any file, and the tracked size is what it was.
C1_WriteAbandonedOnRotationError ==
    [][(WriteStep /\ last'.cycles > 0 /\ lr'.file # "open") =>
          /\ last'.n = 0
          /\ last'.err \in RotateErrs
          /\ Occurrences(ret'.n, active', rotated') = 0
          /\ lr'.fileSize = lr.fileSize]_vars

\* A Write whose size-triggered cycle failed at the rename.
C1_Witness ==
    /\ last.op = "Write"
    /\ last.cycles = 1
    /\ ~last.daily
    /\ last.err = ErrRotRename
    /\ last.n = 0
    /\ lr.file = "closed"

\* C2: Close closes the handle, the handle then stays closed, and a Write on
\* the closed handle returns 0 and an error whose chain holds os.ErrClosed,
\* and changes no file, whether or not a rotation was due.
C2_WriteAfterCloseFails ==
    [][/\ (last'.op = "Close" /\ lr.file # "nil") => lr'.file = "closed"
       /\ lr.file = "closed" =>
             /\ lr'.file = "closed"
             /\ WriteStep =>
                   /\ IsErrClosed(last'.err)
                   /\ last'.n = 0
                   /\ active' = active
                   /\ rotated' = rotated
                   /\ fds' = fds]_vars

\* A Write after Close (no filesystem call has failed and the cleanup
\* pattern is well-formed, so only Close can have closed the handle), with a
\* rotation due.
C2_Witness ==
    /\ last.op = "Write"
    /\ last.cycles = 1
    /\ IsErrClosed(last.err)
    /\ lr.file = "closed"
    /\ lr.patternOK
    /\ nfaults = 0

\* The name of the file a rotation cycle at the current time leaves.
RotatedName ==
    IF lr.compress
    THEN GzName(generateRotatedName(now))
    ELSE generateRotatedName(now)

\* The rotated file is there and holds the bytes the active file held, as
\* many as the tracked count.
RotatedHoldsPrior ==
    /\ RotatedName \in DOMAIN rotated'
    /\ Contents(active', rotated')[RotatedName] = active.data
    /\ Size(active.data) = lr.fileSize

\* The cleanup of the cycle removed the rotated file: it was older than the
\* maximum age, or MaxBackups others were at least as recent.
RotatedCleanedUp ==
    /\ RotatedName \notin DOMAIN rotated'
    /\ RotatedName \in DOMAIN last'.listed
    /\ LET L == last'.listed
       IN  \/ L[RotatedName] < now - lr.maxAge
           \/ Cardinality({x \in DOMAIN L \ {RotatedName} :
                             L[x] >= L[RotatedName]}) >= lr.maxBackups

\* The record of the Write is alone in the active file.
FreshActive ==
    active'.data = <<[m |-> ret'.n, n |-> last'.n]>>

SizeDue ==
    /\ WriteStep
    /\ ~lr.rotateDaily
    /\ lr.fileSize >= lr.maxSize
    /\ nfaults' = 0

\* C3: with daily rotation disabled and no failing filesystem call, a Write
\* that finds the tracked size at or over the ceiling starts exactly one
\* rotation cycle, and when the cycle succeeds the record is alone in the
\* fresh active file and the rotated file (decompressed, when compression is
\* on) holds exactly the bytes the active file held, as many as the tracked
\* count, unless the cleanup of that cycle removed it: it was older than the
\* maximum age, or MaxBackups other rotated files were at least as recent.
C3_SizeRotationKeepsPrior ==
    [][SizeDue =>
          /\ last'.cycles = 1
          /\ last'.err = Nil =>
                /\ FreshActive
                /\ RotatedHoldsPrior \/ RotatedCleanedUp]_vars

\* The modification time of the file the cycle leaves is that of no other
\* rotated file.
NoTie ==
    \A x \in DOMAIN rotated \ {RotatedName, generateRotatedName(now)} :
        rotated[x].mtime # (IF lr.compress THEN now ELSE active.mtime)

\* C3 as stated: the rotated file always holds the bytes (the writer is
\* open, the cleanup pattern well-formed and no two modification times are
\* equal).
C3_RotatedFileAlwaysThere ==
    [][(SizeDue /\ lr.file = "open" /\ lr.patternOK /\ NoTie) =>
          /\ last'.cycles = 1
          /\ last'.err = Nil
          /\ FreshActive
          /\ RotatedHoldsPrior]_vars

\* A Write that rotated on size: the rotated file of this second holds what
\* was written before, the active file the record.
C3_Witness ==
    /\ last.op = "Write"
    /\ last.cycles = 1
    /\ ~last.daily
    /\ last.err = Nil
    /\ nfaults = 0
    /\ active.data = <<[m |-> ret.n, n |-> last.n]>>
    /\ RotatedName \in DOMAIN rotated
    /\ Size(Contents(active, rotated)[RotatedName]) >= lr.maxSize

\* The bytes of the callers in the active file.
RECURSIVE Written(_)
Written(d) ==
    IF d = <<>> THEN 0
    ELSE (IF Head(d).m = 0 THEN 0 ELSE Head(d).n) + Written(Tail(d))

\* C4: with daily rotation disabled and no Rotate call, while the size of
\* the file found at construction plus the total length of the records
\* passed to Write is below the ceiling, there is no rotated file, every
\* byte Write has reported written is in the active file, and a successful
\* Write returns the length of its record.
C4_NoRotationBelowCeiling ==
    (~lr.rotateDaily /\ tally.s0 + tally.total < lr.maxSize) =>
        /\ DOMAIN rotated = {}
        /\ Written(active.data) = tally.written
        /\ (last.op = "Write" /\ last.err = Nil) => last.n = tally.len

\* C4 as stated: the total length of the records alone is below the ceiling.
C4_NoRotationBelowCeilingOfWrites ==
    (~lr.rotateDaily /\ tally.total < lr.maxSize) =>
        /\ DOMAIN rotated = {}
        /\ Written(active.data) = tally.written
        /\ (last.op = "Write" /\ last.err = Nil) => last.n = tally.len

\* Two successful Writes on top of a file found at construction, still
\* below the ceiling.
C4_Witness ==
    /\ ~lr.rotateDaily
    /\ tally.s0 > 0
    /\ tally.s0 + tally.total < lr.maxSize
    /\ ret.n = MaxWrites
    /\ ret.ok
    /\ last.op = "Write"
    /\ Len(active.data) = MaxWrites + 1

\* C5: with daily rotation enabled and the tracked size below the ceiling, a
\* Write on a day later than the recorded one starts exactly one rotation
\* cycle, the daily one, and when the cycle succeeds the active file has
\* been renamed and the day is recorded; a Write on the recorded day starts
\* no rotation cycle.
C5_DailyRotationOncePerDay ==
    [][(WriteStep /\ lr.rotateDaily /\ lr.fileSize < lr.maxSize) =>
          IF Truncate(now) > lr.rotateTime
          THEN /\ last'.cycles = 1
               /\ last'.daily
               /\ last'.err = Nil =>
                     /\ lr'.rotateTime = Truncate(now)
                     /\ RotatedName \in DOMAIN last'.listed
          ELSE /\ lr.rotateTime = Truncate(now)
               /\ last'.cycles = 0
               /\ rotated' = rotated
               /\ lr'.rotateTime = lr.rotateTime]_vars

\* The second Write of the day after construction, without a rotation: the
\* first one has rotated and recorded the day.
C5_Witness ==
    /\ lr.rotateDaily
    /\ last.op = "Write"
    /\ last.cycles = 0
    /\ last.err = Nil
    /\ ret.n = 2
    /\ ret.ok
    /\ Truncate(now) = 1
    /\ lr.rotateTime = 1
    /\ DOMAIN rotated # {}
    /\ nfaults = 0

\* C6: when all Write calls so far have returned successfully, every
\* marker occurs exactly once in the active file and the rotated files.
C6_EveryMarkerOnce ==
    ret.ok => \A p \in 1 .. ret.n : Occurrences(p, active, rotated) = 1

\* A call whose rotation cycle reached the passes of cleanup, and what the
\* cleanup listed: the modification time of each entry.
Cleaned == last.op \in {"Write", "Rotate"} /\ last.cleaned
Old(L) == {x \in DOMAIN L : L[x] < now - lr.maxAge}
Distinct(L) == \A x, y \in DOMAIN L : x # y => L[x] # L[y]

\* The MaxBackups most recently modified of the entries of S.
MostRecent(L, S) ==
    {x \in S : Cardinality({y \in S : L[y] > L[x]}) < lr.maxBackups}

MoreThanK ==
    /\ Cleaned
    /\ last.nodel = {}
    /\ Distinct(last.listed)
    /\ Cardinality(DOMAIN last.listed) > lr.maxBackups

\* C7: when cleanup lists more than MaxBackups rotated files, of distinct
\* modification times, and every removal succeeds, the files that remain are
\* the MaxBackups most recently modified of those not older than the maximum
\* age, and exactly MaxBackups of them when none is older.
C7_CountRetention ==
    MoreThanK =>
        LET L == last.listed
        IN  /\ DOMAIN rotated = MostRecent(L, DOMAIN L \ Old(L))
            /\ Old(L) = {} => Cardinality(DOMAIN rotated) = lr.maxBackups

\* A cleanup that listed three files and kept the two most recent.
C7_Witness ==
    /\ MoreThanK
    /\ Old(last.listed) = {}
    /\ Cardinality(DOMAIN last.listed) = 3
    /\ Cardinality(DOMAIN rotated) = 2

\* C8: every rotated file that cleanup lists, that is older than the maximum
\* age and whose removal does not fail is absent after cleanup, whatever the
\* number of files and MaxBackups are and whatever removals fail.
C8_AgeRetention ==
    Cleaned =>
        \A x \in Old(last.listed) \ last.nodel : x \notin DOMAIN rotated

\* A cleanup that listed two files older than the maximum age: the removal
\* of one failed, and the other is gone.
C8_Witness ==
    /\ Cleaned
    /\ \E x, y \in Old(last.listed) :
         /\ x \in last.nodel
         /\ x \in DOMAIN rotated
         /\ y \notin last.nodel
         /\ y \notin DOMAIN rotated

\* C9: after a call whose rotation cycle failed at the compression step, the
\* writer is open.
C9_OpenAfterCompressFailure ==
    (last.op \in {"Write", "Rotate"} /\ last.err = ErrRotCompress) =>
        lr.file = "open"

\* C10: after a call whose rotation cycle failed at the cleanup step, the
\* writer is open.
C10_OpenAfterCleanupFailure ==
    (last.op \in {"Write", "Rotate"} /\ last.err = ErrRotCleanup) =>
        lr.file = "open"

\* A step in which a call that ran one rotation cycle on an open writer
\* returned, no filesystem call having failed so far.
CycleStep ==
    /\ last'.op \in {"Write", "Rotate"}
    /\ last'.cycles = 1
    /\ lr.file = "open"
    /\ nfaults' = 0

ManualStep ==
    /\ last'.op = "Rotate"
    /\ lr.file = "open"
    /\ nfaults' = 0

\* The active path is a fresh file and the writer is open on it.
FreshFile ==
    /\ lr'.file = "open"
    /\ lr'.fileSize = 0
    /\ active'.exists
    /\ active'.data = <<>>

\* C12: a Rotate call on an open writer runs one rotation cycle whatever the
\* tracked size and the reference day are; with no failing filesystem call,
\* when it returns nil the active path is a fresh file with tracked size 0,
\* and the rotated file holds the previous active content unless the cleanup
\* of that cycle removed it: it was older than the maximum age, or MaxBackups
\* other rotated files were at least as recent.
C12_ManualRotateUnconditional ==
    [][ManualStep =>
          /\ last'.cycles = 1
          /\ last'.err = Nil =>
                /\ FreshFile
                /\ RotatedHoldsPrior \/ RotatedCleanedUp]_vars

\* C12 as stated: the rotated file is always there (the cleanup pattern is
\* well-formed and no two modification times are equal).
C12_ManualRotateLeavesBackup ==
    [][(ManualStep /\ lr.patternOK /\ NoTie) =>
          /\ last'.cycles = 1
          /\ last'.err = Nil
          /\ FreshFile
          /\ RotatedHoldsPrior]_vars

\* A Rotate below the ceiling and on the reference day: the rotated file
\* holds the one record written, the active file is empty.
C12_Witness ==
    /\ last.op = "Rotate"
    /\ last.cycles = 1
    /\ last.err = Nil
    /\ nfaults = 0
    /\ lr.file = "open"
    /\ lr.fileSize = 0
    /\ active.data = <<>>
    /\ lr.rotateTime = Truncate(now)
    /\ RotatedName \in DOMAIN rotated
    /\ Size(Contents(active, rotated)[RotatedName]) < lr.maxSize
    /\ Written(Contents(active, rotated)[RotatedName]) > 0

\* C13: a Rotate call that follows a Close, with no failing filesystem call,
\* closes and renames nothing, opens the active path, synchronizes the
\* tracked size and returns nil with the writer open.
C13_RotateAfterCloseOpens ==
    [][(last.op = "Close" /\ last.err = Nil /\ last'.op = "Rotate"
            /\ nfaults' = nfaults) =>
          /\ last'.err = Nil
          /\ lr'.file = "open"
          /\ lr'.fileSize = Size(active'.data)
          /\ rotated' = rotated]_vars

\* C14: the file_open entry that GetStats returns is true exactly when the
\* writer holds an open handle.
C14_FileOpenTellsHandle ==
    last.op = "GetStats" => (last.stats.file_open <=> lr.file = "open")

\* C15: a construction that returns an error returns no writer and leaves
\* no handle open, and with an empty path it has called no os.MkdirAll and
\* changed no file.
C15_FailedConstructionLeavesNothing ==
    [][(last'.op = "NewLogRotator" /\ last'.err # Nil) =>
          /\ lr' = NoWriter
          /\ fds' = 0
          /\ last'.path = "" =>
                /\ last'.err = ErrPath
                /\ ~last'.mkdir
                /\ active' = active
                /\ rotated' = rotated]_vars

\* A construction that failed at Stat: the file has been created, the
\* handle is closed again and no writer is returned.
C15_Witness ==
    /\ last.op = "NewLogRotator"
    /\ last.err = ErrStat
    /\ lr = NoWriter
    /\ fds = 0
    /\ active.exists
    /\ active.data = <<>>

\* A step in which a Write returned on a writer constructed with MaxSize 0
\* (the only configurations whose ceiling is the default), with no daily
\* rotation due.
ZeroCeilingWrite ==
    /\ WriteStep
    /\ lr.maxSize = DefaultMaxSize
    /\ ~(lr.rotateDaily /\ Truncate(now) > lr.rotateTime)

\* C16: a writer constructed with a size ceiling of 0 has the default
\* ceiling: a Write starts no rotation cycle while the tracked size is below
\* the default, and one size-triggered cycle when it is at or over it.
C16_ZeroCeilingIsDefault ==
    [][ZeroCeilingWrite =>
          /\ ~last'.daily
          /\ last'.cycles = (IF lr.fileSize >= DefaultMaxSize THEN 1 ELSE 0)
      ]_vars

\* C16 as stated: a writer constructed with a size ceiling of 0 starts no
\* size-triggered rotation cycle.
C16_ZeroCeilingNeverRotates ==
    [][ZeroCeilingWrite => last'.cycles = 0]_vars

\* A Write on a writer constructed with MaxSize 0 that rotated on size: the
\* rotated file is of the default ceiling.
C16_Witness ==
    /\ last.op = "Write"
    /\ last.cycles = 1
    /\ ~last.daily
    /\ last.err = Nil
    /\ lr.maxSize = DefaultMaxSize
    /\ \E x \in DOMAIN rotated : Size(rotated[x].body) = DefaultMaxSize

\* C17: the call that follows a rotation cycle failed at the rename or at
\* the reopen, runs a rotation cycle itself and meets no failing filesystem
\* call, returns nil and leaves the writer open.
C17_RecoversAfterFailedCycle ==
    [][(/\ last.op \in {"Write", "Rotate"}
        /\ last.err \in {ErrRotRename, ErrOpen, ErrStat}
        /\ last'.op \in {"Write", "Rotate"}
        /\ last'.cycles = 1
        /\ nfaults' = nfaults) =>
          /\ last'.err = Nil
          /\ lr'.file = "open"]_vars

\* C18: the reference day changes only in a Write whose daily-triggered
\* cycle succeeded, and then to the current day; a Write on a later day
\* than the reference day starts the daily cycle, and when the cycle fails
\* the reference day is unchanged, so that the next Write starts it again.
C18_ReferenceDayAfterSuccess ==
    [][/\ lr'.rotateTime # lr.rotateTime =>
             /\ WriteStep
             /\ lr.rotateDaily
             /\ last'.daily
             /\ last'.cycles = 1
             /\ last'.err \notin RotateErrs
             /\ lr'.rotateTime = Truncate(now)
       /\ (WriteStep /\ lr.rotateDaily /\ Truncate(now) > lr.rotateTime) =>
             /\ last'.daily
             /\ last'.cycles = 1
             /\ lr'.rotateTime = (IF last'.err \in RotateErrs
                                  THEN lr.rotateTime
                                  ELSE Truncate(now))]_vars

\* The second Write of a later day than the reference day: the daily cycle
\* of the first has failed, the second has started the cycle again, on the
\* closed handle, and the reference day is still the old one.
C18_Witness ==
    /\ last.op = "Write"
    /\ last.daily
    /\ last.cycles = 1
    /\ IsErrClosed(last.err)
    /\ ret.n = 2
    /\ nfaults = 1
    /\ lr.rotateDaily
    /\ lr.rotateTime < Truncate(now)

\* C19: while the writer holds an open handle, the tracked size is the size
\* of the active file.
C19_TrackedSizeIsFileSize ==
    lr.file = "open" => lr.fileSize = Size(active.data)

\* The callers between the return of lr.mu.Lock() and lr.mu.Unlock().
InMethod == {p \in Procs : pc[p].at \notin {"idle", "lock"}}

\* C20: at most one caller is inside Write, Rotate, Close or GetStats at a
\* time, and it is the holder of the mutex; rotation cycles run inside
\* them, so no two overlap; and while a Write is between its trigger check
\* and its append, the writer and the files do not change.
C20_MethodsMutuallyExclusive ==
    [][/\ Cardinality(InMethod') <= 1
       /\ \A p \in InMethod' : mu' = p
       /\ \A p \in Procs :
            (pc[p].at = "append" /\ pc'[p].at = "append") =>
                UNCHANGED <<lr, active, rotated, fds>>]_vars

\* A Write is between its trigger check, which has rotated, and its append,
\* while the other caller waits for the mutex to rotate.
C20_Witness ==
    \E p, q \in Procs :
        /\ pc[p].at = "append"
        /\ pc[p].tr.cycles = 1
        /\ mu = p
        /\ pc[q].at = "lock"
        /\ pc[q].res.op = "Rotate"


\* C21: the instance holds at most one handle on its path, and holds one
\* exactly when its file is open; no call, failed cycles and failed opens
\* included, held more than one at a time, and an open step that fails at
\* Stat has closed the handle it opened when the error is returned.
C21_AtMostOneHandle ==
    /\ fds \in {0, 1}
    /\ fds = 1 <=> lr.file = "open"
    /\ last.op \in {"Write", "Rotate", "Close"} => last.peak <= 1
    /\ (last.op \in {"Write", "Rotate"} /\ last.err = ErrStat) =>
          (last.peak = 1 /\ fds = 0)

\* A cycle closed the handle, renamed the file, and its open step failed at
\* Stat after opening the new file.
C21_Witness ==
    /\ last.op = "Rotate"
    /\ last.err = ErrStat
    /\ last.peak = 1
    /\ fds = 0
    /\ active.exists
    /\ RotatedName \in DOMAIN rotated


\* C22: whatever the configured path, hence whether or not the cleanup
\* pattern matches its name, the entries a cleanup has listed never include
\* the configured path, and the file the writer holds open is at its path:
\* no sequence of Write and Rotate calls makes cleanup delete it.
C22_CleanupSparesActive ==
    /\ Cleaned => FilePath \notin DOMAIN last.listed
    /\ lr.file = "open" => active.exists

\* A cleanup has removed rotated files it listed, and the writer went on
\* with a file at its path.
C22_Witness ==
    /\ Cleaned
    /\ last.err = Nil
    /\ DOMAIN last.listed \ DOMAIN rotated # {}
    /\ lr.file = "open"
    /\ active.exists


\* The daily trigger of the next Write: the day has changed since the
\* reference day.
DailyDue == lr.rotateDaily /\ Truncate(now) > lr.rotateTime

\* C23: one Write call runs at most one rotation cycle; when the daily
\* trigger fires, the cycle is the daily one, and when it succeeds the call
\* goes on to the append without a second cycle, also when the tracked size
\* was at or above the ceiling before the call: the fresh file takes the
\* record and the one rotated file holds what the active file held.
C23_OneCyclePerWrite ==
    [][WriteStep =>
          /\ last'.cycles <= 1
          /\ DailyDue => (last'.daily /\ last'.cycles = 1)
          /\ (DailyDue /\ lr.fileSize >= lr.maxSize /\ last'.err = Nil) =>
                /\ last'.cycles = 1
                /\ Len(active'.data) = 1
                /\ RotatedName' \in DOMAIN last'.listed
                /\ (RotatedName' \in DOMAIN rotated' /\ lr.file = "open") =>
                      Contents(active', rotated')[RotatedName'] =
                          active.data]_vars

\* A Write has run the daily cycle on a file that had reached the ceiling,
\* once, and appended to the fresh file.
C23_Witness ==
    /\ last.op = "Write"
    /\ last.daily
    /\ last.cycles = 1
    /\ last.err = Nil
    /\ RotatedName \in DOMAIN rotated
    /\ Size(Contents(active, rotated)[RotatedName]) >= lr.maxSize
    /\ Len(active.data) = 1


\* C24: while no filesystem call has failed, a Write that appends finds the
\* active file strictly below the size ceiling, so the file is afterwards
\* of at most ceiling - 1 bytes plus the length of the record, the tracked
\* size is its size, and the record is one piece at the end of the active
\* file and in no rotated file.
C24_AppendBelowCeiling ==
    [][(WriteStep /\ nfaults' = 0 /\ last'.n > 0) =>
          /\ Size(active'.data) - last'.n < lr'.maxSize
          /\ Size(active'.data) <= (lr'.maxSize - 1) + last'.n
          /\ lr'.fileSize = Size(active'.data)
          /\ last'.err = Nil
          /\ active'.data[Len(active'.data)] = [m |-> ret'.n, n |-> last'.n]
          /\ Occurrences(ret'.n, active', rotated') = 1]_vars

\* A Write without a cycle has taken the active file from one byte below
\* the ceiling to above it.
C24_Witness ==
    /\ last.op = "Write"
    /\ nfaults = 0
    /\ last.err = Nil
    /\ last.cycles = 0
    /\ Size(active.data) = (lr.maxSize - 1) + last.n
    /\ Size(active.data) > lr.maxSize

====
